---- MODULE Spec2Model ----
(***************************************************************************)
(* mdtoc: generation of a table of contents inside a Markdown document     *)
(* (src/mdtoc/main.py).  Text is modelled character by character: a        *)
(* string is a sequence of one-character strings, so that the regular      *)
(* expressions, the slug encoding and the substitution of the delimited    *)
(* region are computed the way the Python code computes them.              *)
(*                                                                         *)
(* A value that the code binds once and uses several times is passed to a  *)
(* helper operator as a parameter, so that it is evaluated once.           *)
(***************************************************************************)
EXTENDS Integers, Sequences, FiniteSets, TLC

(***************************************************************************)
(* Character classes of Python's re module, restricted to ASCII.           *)
(***************************************************************************)
LOWER == <<"a", "b", "c", "d", "e", "f", "g", "h", "i", "j", "k", "l", "m", "n", "o", "p", "q", "r", "s", "t", "u", "v", "w", "x", "y", "z">>

UPPER == <<"A", "B", "C", "D", "E", "F", "G", "H", "I", "J", "K", "L", "M", "N", "O", "P", "Q", "R", "S", "T", "U", "V", "W", "X", "Y", "Z">>

DIGITS == <<"0", "1", "2", "3", "4", "5", "6", "7", "8", "9">>

Range(s) == {s[i] : i \in 1..Len(s)}

LETTERS == Range(LOWER) \cup Range(UPPER)

\* a character class [...] or, negated, [^...]
Class(chars) == [neg |-> FALSE, chars |-> chars]

NotClass(chars) == [neg |-> TRUE, chars |-> chars]

In(c, cls) == (c \in cls.chars) # cls.neg

\* \s; VT stands for the vertical tab
SPACE == Class({" ", "\t", "\n", "\r", "\f", "VT"})

\* [ \t]
HSPACE == Class({" ", "\t"})

\* \w
WORD == Class(LETTERS \cup Range(DIGITS) \cup {"_"})

\* [ \t#], the class of STRIP_CANDIDATE_PAT
STRIP_CHAR == Class({" ", "\t", "#"})

HASH == Class({"#"})

HYPHEN == Class({"-"})

BACKSLASH == Class({"\\"})

IsSpace(c) == In(c, SPACE)

IsWord(c) == In(c, WORD)

\* str.lower()
lower(x) ==
  [i \in 1..Len(x) |->
     IF x[i] \in Range(UPPER)
     THEN LOWER[CHOOSE k \in 1..Len(UPPER) : UPPER[k] = x[i]]
     ELSE x[i]]

\* the pattern p occurs in s at index i
MatchAt(s, i, p) == i >= 1 /\ i + Len(p) - 1 <= Len(s) /\ SubSeq(s, i, i + Len(p) - 1) = p

\* str.startswith / str.endswith
startswith(s, p) == MatchAt(s, 1, p)

endswith(s, p) == MatchAt(s, Len(s) - Len(p) + 1, p)

\* greedy run: the first index >= from whose character is not in the class
RunEnd(s, from, cls) ==
  CHOOSE e \in from..Len(s) + 1 :
    (\A i \in from..e - 1 : In(s[i], cls)) /\ (e = Len(s) + 1 \/ ~In(s[e], cls))

\* the index at which the maximal trailing run of class characters starts
TrailStart(s, cls) ==
  CHOOSE r \in 1..Len(s) + 1 :
    (\A i \in r..Len(s) : In(s[i], cls)) /\ (r = 1 \/ ~In(s[r - 1], cls))

\* the least element of a set of integers, 0 for the empty set
MinOrZero(S) == IF S = {} THEN 0 ELSE CHOOSE i \in S : \A j \in S : i <= j

\* the first index >= from at which p occurs in s, 0 when there is none
Find(s, p, from) ==
  MinOrZero({i \in from..Len(s) - Len(p) + 1 : s[i] = p[1] /\ MatchAt(s, i, p)})

\* the concatenation of ss[lo], ..., ss[hi]
RECURSIVE ConcatRange(_, _, _)
ConcatRange(ss, lo, hi) ==
  IF lo > hi THEN <<>>
  ELSE IF lo = hi THEN ss[lo]
  ELSE ConcatRange(ss, lo, (lo + hi) \div 2) \o ConcatRange(ss, (lo + hi) \div 2 + 1, hi)

Concat(ss) == ConcatRange(ss, 1, Len(ss))

\* str(n) for n >= 0
RECURSIVE str(_)
str(n) == IF n < 10 THEN <<DIGITS[n + 1]>> ELSE str(n \div 10) \o <<DIGITS[(n % 10) + 1]>>

\* str.split("\n")
RECURSIVE split(_)
SplitAt(s, k) ==
  IF k = 0 THEN <<s>> ELSE <<SubSeq(s, 1, k - 1)>> \o split(SubSeq(s, k + 1, Len(s)))

split(s) == SplitAt(s, Find(s, <<"\n">>, 1))

\* "\n".join(xs)
join(xs) == Concat([i \in 1..Len(xs) |-> IF i = 1 THEN xs[i] ELSE <<"\n">> \o xs[i]])

(***************************************************************************)
(* _strip: STRIP_CANDIDATE_PAT.sub("", x).  The second alternative removes *)
(* the leading run of [ \t#] (lead is the index after it); the first       *)
(* removes the trailing run (starting at r), from the leftmost position of *)
(* that run that is not preceded by a backslash.  A string that is one run *)
(* is removed whole.  (Lines carry no "\n": "$" is the end of the string.) *)
(***************************************************************************)
StripSpan(x, lead, r) ==
  IF lead > Len(x) THEN <<>>
  ELSE SubSeq(x, lead, (IF r > 1 /\ r <= Len(x) /\ x[r - 1] = "\\" THEN r + 1 ELSE r) - 1)

_strip(x) == StripSpan(x, RunEnd(x, 1, STRIP_CHAR), TrailStart(x, STRIP_CHAR))

\* re.sub(r"\s+", "-", x)
SubSpaceRuns(x) ==
  SelectSeq([i \in 1..Len(x) |->
               IF ~IsSpace(x[i]) THEN x[i]
               ELSE IF i > 1 /\ IsSpace(x[i - 1]) THEN "" ELSE "-"],
            LAMBDA c : c # "")

\* re.sub(r"[^-\w\s]", "", x)
DropPunctuation(x) == SelectSeq(x, LAMBDA c : c = "-" \/ IsWord(c) \/ IsSpace(c))

\* str.strip("-")
HyphenSpan(x, a, b) == IF a > Len(x) THEN <<>> ELSE SubSeq(x, a, b - 1)

StripHyphens(x) == HyphenSpan(x, RunEnd(x, 1, HYPHEN), TrailStart(x, HYPHEN))

\* as_link before its last step: res as first assigned
RawLink(x) == DropPunctuation(SubSpaceRuns(_strip(lower(x))))

\* as_link's last step: if res.endswith("--"): res = res.strip("-") + "-"
FixTrailingHyphens(res) ==
  IF endswith(res, <<"-", "-">>) THEN StripHyphens(res) \o <<"-">> ELSE res

as_link(x) == FixTrailingHyphens(RawLink(x))

\* escape: "[" and "]" get a backslash
escape(x) ==
  Concat([i \in 1..Len(x) |-> IF x[i] \in {"[", "]"} THEN <<"\\", x[i]>> ELSE <<x[i]>>])

\* HEADER_PAT.match(line), HEADER_PAT = ^\s{,3}(#{1,6})\s+(.*)
\* Every quantifier is greedy and none can give a character back to the
\* next one ("#" is not \s), so the match is decided by the runs: w is the
\* index after the leading whitespace, h the index after the "#" run.
NoMatch == [matched |-> FALSE, level |-> 0, header |-> <<>>]

HeaderGroups(line, w, h) ==
  IF w - 1 <= 3 /\ h - w >= 1 /\ h - w <= 6 /\ h <= Len(line) /\ IsSpace(line[h])
  THEN [matched |-> TRUE, level |-> h - w,
        header |-> SubSeq(line, RunEnd(line, h, SPACE), Len(line))]
  ELSE NoMatch

HeaderHashes(line, w) == HeaderGroups(line, w, RunEnd(line, w, HASH))

HEADER_PAT(line) == HeaderHashes(line, RunEnd(line, 1, SPACE))

\* The backquote cannot be written inside a TLA+ string: this atom stands for it.
BACKQUOTE == "backquote"

FENCE == <<BACKQUOTE, BACKQUOTE, BACKQUOTE>>

\* a variant of HeadersYield: a header is yielded inside a fence too, as if
\* the loop lacked "if is_comment_block: continue"
HeadersYieldInFence(flag, m) ==
  [is_comment_block |-> flag, yields |-> m.matched,
   level |-> m.level, header |-> m.header]

(***************************************************************************)
(* One iteration of the loop of headers(): the fence flag after the line,  *)
(* and the (level, header) pair the generator yields for it, if any.       *)
(***************************************************************************)
\* if is_comment_block: continue; header = HEADER_PAT.match(line); if header: yield
HeadersYield(flag, m) ==
  [is_comment_block |-> flag, yields |-> ~flag /\ m.matched,
   level |-> m.level, header |-> m.header]

HeadersStep(is_comment_block, line) ==
  HeadersYield(IF startswith(line, FENCE) THEN ~is_comment_block ELSE is_comment_block,
               HEADER_PAT(line))

RECURSIVE HeadersFrom(_, _, _)
HeadersCons(lines, i, st) ==
  (IF st.yields THEN <<[level |-> st.level, header |-> st.header]>> ELSE <<>>)
  \o HeadersFrom(lines, i + 1, st.is_comment_block)

HeadersFrom(lines, i, flag) ==
  IF i > Len(lines) THEN <<>> ELSE HeadersCons(lines, i, HeadersStep(flag, lines[i]))

\* headers(md_string), as the sequence the generator yields
headers(md_string) == HeadersFrom(split(md_string), 1, FALSE)

\* "  " * k
Spaces(k) == [i \in 1..2 * k |-> " "]

\* n_seen[link] of a defaultdict(int)
Seen(n_seen, link) == IF link \in DOMAIN n_seen THEN n_seen[link] ELSE 0

\* link += "-" + str(n) when n > 0
Resolved(base, n) == IF n > 0 THEN base \o <<"-">> \o str(n) ELSE base

\* a variant of TocCount: only the first occurrence is counted, as if the
\* branch n > 0 lacked its n_seen[link] += 1
TocCountFirstOnly(n_seen, base, n) ==
  [k \in DOMAIN n_seen \cup {base} |-> IF k = base THEN (IF n > 0 THEN n ELSE 1) ELSE n_seen[k]]

(***************************************************************************)
(* One iteration of the loop of toc(): the counters afterwards, the        *)
(* resolved link and the bullet line appended to the list.  Both branches  *)
(* of the code add one to n_seen[link] before link gets its suffix.        *)
(***************************************************************************)
\* n_seen[link] += 1
TocCount(n_seen, base, n) ==
  [k \in DOMAIN n_seen \cup {base} |-> IF k = base THEN n + 1 ELSE n_seen[k]]

TocBullet(n_seen, level, header, base, n) ==
  [n_seen |-> TocCount(n_seen, base, n),
   base   |-> base,
   link   |-> Resolved(base, n),
   line   |-> Spaces(level - 1) \o <<"*", " ", "[">> \o escape(_strip(header))
              \o <<"]", "(", "#">> \o Resolved(base, n) \o <<")">>]

TocLink(n_seen, level, header, base) ==
  TocBullet(n_seen, level, header, base, Seen(n_seen, base))

TocStep(n_seen, level, header) == TocLink(n_seen, level, header, as_link(header))

RECURSIVE TocFrom(_, _, _)
TocCons(hs, i, st) == <<st>> \o TocFrom(hs, i + 1, st.n_seen)

TocFrom(hs, i, n_seen) ==
  IF i > Len(hs) THEN <<>> ELSE TocCons(hs, i, TocStep(n_seen, hs[i].level, hs[i].header))

\* the entries of one toc() call, in order
TocEntries(md_string) == TocFrom(headers(md_string), 1, <<>>)

TocText(es) == join([i \in 1..Len(es) |-> es[i].line])

toc(md_string) == TocText(TocEntries(md_string))

\* TOC_PAT = [ \t]*<!---toc start-->(.*?)<!---toc end-->[ \t]*  with DOTALL
TOC_START == <<"<", "!", "-", "-", "-", "t", "o", "c", " ", "s", "t", "a", "r", "t", "-", "-", ">">>

TOC_END == <<"<", "!", "-", "-", "-", "t", "o", "c", " ", "e", "n", "d", "-", "-", ">">>

NoSpan == [found |-> FALSE, start |-> 0, g1 |-> <<>>, stop |-> 0]

\* TOC_PAT.search(s, from): the leftmost match starting at or after from.
\* q is the index of the first start delimiter, e of the first end
\* delimiter after it; start is the match's first index, stop the index
\* after its last, g1 group 1.
SpanTo(s, from, q, e) ==
  IF e = 0 THEN NoSpan
  ELSE [found |-> TRUE,
        start |-> from - 1 + TrailStart(SubSeq(s, from, q - 1), HSPACE),
        g1    |-> SubSeq(s, q + Len(TOC_START), e - 1),
        stop  |-> RunEnd(s, e + Len(TOC_END), HSPACE)]

SpanFrom(s, from, q) ==
  IF q = 0 THEN NoSpan ELSE SpanTo(s, from, q, Find(s, TOC_END, q + Len(TOC_START)))

SearchToc(s, from) == SpanFrom(s, from, Find(s, TOC_START, from))

(***************************************************************************)
(* The replacement string of subn is a template (re's parse_template, as   *)
(* of Python 3.7): backslash escapes are processed, "\1" and "\g<1>"       *)
(* insert group 1, and a backslash before any other ASCII letter or an     *)
(* unknown group is an error, raised before any match is looked for.       *)
(* BEL, BS and VT stand for the characters of "\a", "\b" and "\v", NUL     *)
(* for "\0".  Octal escapes of more than one digit and group names are     *)
(* outside the alphabet of the documents checked.                          *)
(***************************************************************************)
TemplateError == [ok |-> FALSE, text |-> <<>>]

\* the character at i is taken by a backslash right before it
Escaped(t, i) ==
  i > 1 /\ t[i - 1] = "\\" /\ (i - TrailStart(SubSeq(t, 1, i - 1), BACKSLASH)) % 2 = 1

\* an escape sequence starts at i
EscapeAt(t, i) == t[i] = "\\" /\ ~Escaped(t, i)

\* "\g<1>" starts at i, one of the escape sequences
GroupAt(t, i) == MatchAt(t, i + 1, <<"g", "<", "1", ">">>)

\* what the escape sequence starting at i inserts; g1 is group 1 of the match
EscapeText(c, g1) ==
  CASE c = "\\" -> <<"\\">>
    [] c = "n" -> <<"\n">>
    [] c = "t" -> <<"\t">>
    [] c = "r" -> <<"\r">>
    [] c = "f" -> <<"\f">>
    [] c = "a" -> <<"BEL">>
    [] c = "b" -> <<"BS">>
    [] c = "v" -> <<"VT">>
    [] c = "0" -> <<"NUL">>
    [] c = "1" \/ c = "g" -> g1
    [] OTHER -> <<"\\", c>>

\* the escape sequence starting at i makes parse_template raise re.error
BadEscape(t, i) ==
  \/ i = Len(t)
  \/ t[i + 1] = "g" /\ ~GroupAt(t, i)
  \/ t[i + 1] \in LETTERS \ {"a", "b", "f", "n", "r", "t", "v", "g"}
  \/ t[i + 1] \in Range(DIGITS) \ {"0", "1"}
  \/ t[i + 1] \in {"0", "1"} /\ i + 2 <= Len(t) /\ t[i + 2] \in Range(DIGITS)

\* starts: the indexes at which an escape sequence starts
ExpandAt(t, g1, starts) ==
  IF \E i \in starts : BadEscape(t, i) THEN TemplateError
  ELSE [ok   |-> TRUE,
        text |-> Concat([i \in 1..Len(t) |->
                   IF i \in starts THEN EscapeText(t[i + 1], g1)
                   ELSE IF i - 1 \in starts THEN <<>>
                   ELSE IF \E k \in 2..4 : i - k \in starts /\ GroupAt(t, i - k) THEN <<>>
                   ELSE <<t[i]>>])]

expand_template(t, g1) == ExpandAt(t, g1, {i \in 1..Len(t) : EscapeAt(t, i)})

\* the replacement string modify_and_write builds with str.format
Template(table_of_contents) ==
  TOC_START \o <<"\n", "\n">> \o table_of_contents \o <<"\n", "\n">> \o TOC_END

RECURSIVE SubnFrom(_, _, _)
SubnCons(s, repl, from, m, rest) ==
  [text |-> SubSeq(s, from, m.start - 1) \o expand_template(repl, m.g1).text \o rest.text,
   n    |-> rest.n + 1]

SubnSpan(s, repl, from, m) ==
  IF ~m.found THEN [text |-> SubSeq(s, from, Len(s)), n |-> 0]
  ELSE SubnCons(s, repl, from, m, SubnFrom(s, repl, m.stop))

\* the substitution of every match from index from on
SubnFrom(s, repl, from) == SubnSpan(s, repl, from, SearchToc(s, from))

SubnResult(r) == [ok |-> TRUE, text |-> r.text, n |-> r.n]

\* TOC_PAT.subn(repl, s): ok is FALSE when compiling the template raises re.error
subn(repl, s) ==
  IF expand_template(repl, <<>>).ok THEN SubnResult(SubnFrom(s, repl, 1))
  ELSE [ok |-> FALSE, text |-> <<>>, n |-> 0]

\* MD_LINK_PAT = \[([^\[\]]+)\]\((([^\s)(]|\([^\s)(]*\))*)\)
\* [^\[\]]
NOT_BRACKET == NotClass({"[", "]"})

\* [^\s)(]
URL_CHAR == NotClass(SPACE.chars \cup {"(", ")"})

\* the index after the longest URL body that starts at i: runs of URL
\* characters (up to k) and groups in parentheses (from k to j)
RECURSIVE UrlEnd(_, _)
UrlGroup(s, k, j) == IF j <= Len(s) /\ s[j] = ")" THEN UrlEnd(s, j + 1) ELSE k

UrlRun(s, k) ==
  IF k <= Len(s) /\ s[k] = "(" THEN UrlGroup(s, k, RunEnd(s, k + 1, URL_CHAR)) ELSE k

UrlEnd(s, i) == IF i > Len(s) THEN i ELSE UrlRun(s, RunEnd(s, i, URL_CHAR))

NoLink == [found |-> FALSE, text |-> <<>>, url |-> <<>>, at |-> 0, stop |-> 0]

\* MD_LINK_PAT.match(s, p): le is the index after the label, ue after the URL
LinkUrl(s, p, le, ue) ==
  IF ue <= Len(s) /\ s[ue] = ")"
  THEN [found |-> TRUE, text |-> SubSeq(s, p + 1, le - 1),
        url |-> SubSeq(s, le + 2, ue - 1), at |-> p + 1, stop |-> ue + 1]
  ELSE NoLink

LinkLabel(s, p, le) ==
  IF s[p] = "[" /\ le > p + 1 /\ le + 1 <= Len(s) /\ s[le] = "]" /\ s[le + 1] = "("
  THEN LinkUrl(s, p, le, UrlEnd(s, le + 2))
  ELSE NoLink

LinkAt(s, p) == LinkLabel(s, p, RunEnd(s, p + 1, NOT_BRACKET))

\* line_col(position) of get_links; at is the 1-based index of the
\* character, breaks the indexes of the line breaks before it
LineColAfter(at, breaks) ==
  <<1 + Cardinality(breaks),
    at - (IF breaks = {} THEN 0 ELSE CHOOSE i \in breaks : \A j \in breaks : j <= i)>>

line_col(md_string, at) ==
  LineColAfter(at, {i \in 1..at - 1 : md_string[i] \in {"\r", "\n"}})

\* MD_LINK_PAT.finditer(s) from index p on
RECURSIVE LinksFrom(_, _)
LinkTuple(m, lc) == [text |-> m.text, url |-> m.url, line |-> lc[1], col |-> lc[2]]

LinksCons(s, m) == <<LinkTuple(m, line_col(s, m.at))>> \o LinksFrom(s, m.stop)

LinksFirst(s, p) == IF p = 0 THEN <<>> ELSE LinksCons(s, LinkAt(s, p))

LinksFrom(s, p) ==
  LinksFirst(s, MinOrZero({i \in p..Len(s) : s[i] = "[" /\ LinkAt(s, i).found}))

\* get_links(md_string), as the sequence the generator yields
get_links(md_string) == LinksFrom(md_string, 1)

(***************************************************************************)
(* State.  The command line (cli, modify_and_write) works on the file at   *)
(* path; a concurrent reader of that file is the variable seen.  The loops *)
(* of toc() and headers() have their own variables, as has a single call   *)
(* of as_link or of HEADER_PAT.match.                                      *)
(***************************************************************************)
VARIABLES
  file,               \* the content of the Markdown file at path
  pc,                 \* where cli() / modify_and_write() stands
  markdown,           \* modify_and_write: the text read
  table_of_contents,  \* modify_and_write: toc(markdown)
  new_markdown,       \* modify_and_write: the substituted text
  replacements,       \* modify_and_write: the number of substitutions
  error,              \* the exception raised, "" when none
  wpos,               \* the number of characters of new_markdown in the file
  runs,               \* how many times the command was started
  report,             \* cli: the link check's lines
  seen,               \* what a concurrent reader of the file last read
  md_string,          \* toc: its argument
  lines,              \* headers: md_string.split("\n")
  li,                 \* headers: the index of the next line of the for loop
  is_comment_block,   \* headers: the fence flag
  n_seen,             \* toc: the counters, a defaultdict(int)
  toc_list,           \* toc: the list of bullet lines (the local named toc)
  entries,            \* toc: per bullet line, the line it came from and its anchors
  result,             \* toc: what the last call returned
  prev_result,        \* toc: what the call before it returned
  calls,              \* toc: the number of calls that returned
  tpc,                \* toc: "idle" between calls, "loop" inside the for loop
  arg,                \* the argument of a single as_link / HEADER_PAT.match call
  ret,                \* its result
  fpc                 \* "call" before it, the function's name after it

cliVars == <<file, pc, markdown, table_of_contents, new_markdown, replacements,
             error, wpos, runs, report>>

tocVars == <<md_string, lines, li, is_comment_block, n_seen, toc_list, entries,
             result, prev_result, calls, tpc>>

funVars == <<arg, ret, fpc>>

vars == <<cliVars, seen, tocVars, funVars>>

(***************************************************************************)
(* The inputs of the model.                                                *)
(***************************************************************************)
\* the sequences over S of length at most n
SeqsUpTo(S, n) == UNION {[1..k -> S] : k \in 0..n}

\* the pieces the documents given to the command line are built from
H_a == <<"#", " ", "a", "\n">>

H_newline == <<"#", " ", "\\", "n", "\n">>

H_badescape == <<"#", " ", "\\", "x", "\n">>

PatchPieces == {TOC_START, TOC_END, H_a, H_newline, H_badescape, <<"\n">>, <<" ">>}

MaxPieces == 4

PatchDocs == {Concat(ps) : ps \in SeqsUpTo(PatchPieces, MaxPieces)}

MaxRuns == 2

\* the documents patched while another process reads the file
REGION == TOC_START \o <<"x">> \o TOC_END

RacePieces == {REGION, H_a, H_badescape}

MaxRacePieces == 2

RaceDocs == {Concat(ps) : ps \in SeqsUpTo(RacePieces, MaxRacePieces)}

\* the documents given to toc(): up to MaxLines lines
TocLines == {<<"#", " ", "a">>, <<" ", "#", "#", " ", "a">>, <<"#", " ", "a", "-", "1">>,
             FENCE, <<"b">>}

MaxLines == 4

TocDocs == {join(ls) : ls \in SeqsUpTo(TocLines, MaxLines)}

MaxCalls == 2

\* the lines given to HEADER_PAT.match: leading blanks, maybe a backslash,
\* a run of "#", maybe a blank, maybe text
MaxLead == 4

MaxHashes == 7

HeaderLines ==
  {lead \o esc \o [i \in 1..h |-> "#"] \o sep \o tail :
     lead \in SeqsUpTo({" ", "\t"}, MaxLead), esc \in {<<>>, <<"\\">>}, h \in 0..MaxHashes,
     sep \in {<<>>, <<" ">>, <<"\t">>}, tail \in {<<>>, <<"a">>}}

\* the header texts given to as_link
MaxSlugLen == 4

SlugInputs == SeqsUpTo({" ", "#", "a", "A", "-", "!"}, MaxSlugLen)

(***************************************************************************)
(* Initial states: each part of the state before anything ran.             *)
(***************************************************************************)
InitCli(docs) ==
  /\ file \in docs
  /\ pc = "start"
  /\ markdown = <<>>
  /\ table_of_contents = <<>>
  /\ new_markdown = <<>>
  /\ replacements = 0
  /\ error = ""
  /\ wpos = 0
  /\ runs = 1
  /\ report = <<>>
  /\ seen = file

InitToc(docs) ==
  /\ md_string \in docs
  /\ lines = <<>>
  /\ li = 1
  /\ is_comment_block = FALSE
  /\ n_seen = <<>>
  /\ toc_list = <<>>
  /\ entries = <<>>
  /\ result = <<>>
  /\ prev_result = <<>>
  /\ calls = 0
  /\ tpc = "idle"

InitFun(args) ==
  /\ arg \in args
  /\ ret = <<>>
  /\ fpc = "call"

(***************************************************************************)
(* modify_and_write(path)                                                  *)
(***************************************************************************)
\* with open(path) as fp: markdown = fp.read(); table_of_contents = toc(markdown)
ReadFile ==
  /\ pc = "start"
  /\ markdown' = file
  /\ table_of_contents' = toc(file)
  /\ pc' = "read"
  /\ UNCHANGED <<file, new_markdown, replacements, error, wpos, runs, report>>
  /\ UNCHANGED <<seen, tocVars, funVars>>

\* new_markdown, replacements = TOC_PAT.subn(..., markdown)
Substituted(r) == r.ok /\ new_markdown' = r.text /\ replacements' = r.n

Substitute ==
  /\ pc = "read"
  /\ Substituted(subn(Template(table_of_contents), markdown))
  /\ pc' = "substituted"
  /\ UNCHANGED <<file, markdown, table_of_contents, error, wpos, runs, report>>
  /\ UNCHANGED <<seen, tocVars, funVars>>

\* TOC_PAT.subn raises re.error: the table of contents is no valid template
SubstituteRaises ==
  /\ pc = "read"
  /\ ~expand_template(Template(table_of_contents), <<>>).ok
  /\ error' = "re.error"
  /\ pc' = "raised"
  /\ UNCHANGED <<file, markdown, table_of_contents, new_markdown, replacements, wpos, runs, report>>
  /\ UNCHANGED <<seen, tocVars, funVars>>

\* if not replacements: raise MarkdownError
RaiseMissing ==
  /\ pc = "substituted"
  /\ replacements = 0
  /\ error' = "MarkdownError"
  /\ pc' = "raised"
  /\ UNCHANGED <<file, markdown, table_of_contents, new_markdown, replacements, wpos, runs, report>>
  /\ UNCHANGED <<seen, tocVars, funVars>>

\* elif replacements > 1: raise MarkdownError
RaiseMultiple ==
  /\ pc = "substituted"
  /\ replacements > 1
  /\ error' = "MarkdownError"
  /\ pc' = "raised"
  /\ UNCHANGED <<file, markdown, table_of_contents, new_markdown, replacements, wpos, runs, report>>
  /\ UNCHANGED <<seen, tocVars, funVars>>

\* a variant of OpenTruncate: the file keeps its content, as if it were
\* opened with mode "r+"
OpenInPlace ==
  /\ pc = "substituted"
  /\ replacements = 1
  /\ wpos' = 0
  /\ pc' = "opened"
  /\ UNCHANGED <<file, markdown, table_of_contents, new_markdown, replacements, error, runs, report>>
  /\ UNCHANGED <<seen, tocVars, funVars>>

\* open(path, "w"): the file is truncated
OpenTruncate ==
  /\ pc = "substituted"
  /\ replacements = 1
  /\ file' = <<>>
  /\ wpos' = 0
  /\ pc' = "opened"
  /\ UNCHANGED <<markdown, table_of_contents, new_markdown, replacements, error, runs, report>>
  /\ UNCHANGED <<seen, tocVars, funVars>>

\* fp.write(new_markdown): the text reaches the file front to back, at the
\* file offset wpos, in pieces whose sizes the buffering decides; one
\* character at a time passes through every content a piece can leave
WriteSome ==
  /\ pc = "opened"
  /\ wpos < Len(new_markdown)
  /\ file' = SubSeq(file, 1, wpos) \o <<new_markdown[wpos + 1]>>
             \o SubSeq(file, wpos + 2, Len(file))
  /\ wpos' = wpos + 1
  /\ UNCHANGED <<pc, markdown, table_of_contents, new_markdown, replacements, error, runs, report>>
  /\ UNCHANGED <<seen, tocVars, funVars>>

\* the with block ends: everything is written, the file is closed
CloseFile ==
  /\ pc = "opened"
  /\ wpos = Len(new_markdown)
  /\ pc' = "written"
  /\ UNCHANGED <<file, markdown, table_of_contents, new_markdown, replacements, error, wpos, runs, report>>
  /\ UNCHANGED <<seen, tocVars, funVars>>

\* another process reads the whole file
ReaderRead ==
  /\ seen' = file
  /\ UNCHANGED <<cliVars, tocVars, funVars>>

(***************************************************************************)
(* cli()                                                                   *)
(***************************************************************************)
\* except MarkdownError: print, return 1
CatchMarkdownError ==
  /\ pc = "raised"
  /\ error = "MarkdownError"
  /\ pc' = "exit1"
  /\ UNCHANGED <<file, markdown, table_of_contents, new_markdown, replacements, error, wpos, runs, report>>
  /\ UNCHANGED <<seen, tocVars, funVars>>

\* re.error is no OSError and no MarkdownError: it leaves cli() uncaught
Uncaught ==
  /\ pc = "raised"
  /\ error = "re.error"
  /\ pc' = "crashed"
  /\ UNCHANGED <<file, markdown, table_of_contents, new_markdown, replacements, error, wpos, runs, report>>
  /\ UNCHANGED <<seen, tocVars, funVars>>

\* the verdict of the link check on one link; the status of an HTTP
\* request is the remote server's
Verdict(link, valid_http_fragments) ==
  IF startswith(link, <<"#">>)
  THEN IF link \in Range(valid_http_fragments) THEN "VALID" ELSE "INVALID"
  ELSE IF \/ startswith(link, <<"h", "t", "t", "p", ":", "/", "/">>)
          \/ startswith(link, <<"h", "t", "t", "p", "s", ":", "/", "/">>)
  THEN "Response"
  ELSE "unrecognized link type"

\* valid_http_fragments = ["#" + as_link(h) for (l, h) in headers(contents)]
ValidFragments(hs) == [i \in 1..Len(hs) |-> <<"#">> \o as_link(hs[i].header)]

ReportLines(ls, valid_http_fragments) ==
  [i \in 1..Len(ls) |->
     [text |-> ls[i].text, link |-> ls[i].url, line |-> ls[i].line, col |-> ls[i].col,
      valid |-> Verdict(ls[i].url, valid_http_fragments)]]

\* the lines the link check prints for the text contents
CheckLinksReport(contents) ==
  ReportLines(get_links(contents), ValidFragments(headers(contents)))

\* if cli.check_links: the file is read again and every link is checked
CheckLinks ==
  /\ pc = "written"
  /\ report' = CheckLinksReport(file)
  /\ pc' = "exit0"
  /\ UNCHANGED <<file, markdown, table_of_contents, new_markdown, replacements, error, wpos, runs>>
  /\ UNCHANGED <<seen, tocVars, funVars>>

\* --check-links was not given
NoCheckLinks ==
  /\ pc = "written"
  /\ report' = <<>>
  /\ pc' = "exit0"
  /\ UNCHANGED <<file, markdown, table_of_contents, new_markdown, replacements, error, wpos, runs>>
  /\ UNCHANGED <<seen, tocVars, funVars>>

\* the command is started again on the file it wrote
RunAgain ==
  /\ pc = "exit0"
  /\ runs < MaxRuns
  /\ runs' = runs + 1
  /\ pc' = "start"
  /\ error' = ""
  /\ report' = <<>>
  /\ UNCHANGED <<file, markdown, table_of_contents, new_markdown, replacements, wpos>>
  /\ UNCHANGED <<seen, tocVars, funVars>>

(***************************************************************************)
(* toc(md_string), one iteration of its for loop at a time.  The loop       *)
(* draws from the generator headers(md_string), which runs its own for     *)
(* loop over the lines up to its next yield.                               *)
(***************************************************************************)
\* toc = []; n_seen = defaultdict(int); headers(): is_comment_block = False
TocCall ==
  /\ tpc = "idle"
  /\ calls < MaxCalls
  /\ lines' = split(md_string)
  /\ li' = 1
  /\ is_comment_block' = FALSE
  /\ n_seen' = <<>>
  /\ toc_list' = <<>>
  /\ entries' = <<>>
  /\ tpc' = "loop"
  /\ UNCHANGED <<md_string, result, prev_result, calls>>
  /\ UNCHANGED <<cliVars, seen, funVars>>

\* headers(): the line is a fence line, is inside a fence, or is no header
Skipped(st) ==
  /\ ~st.yields
  /\ is_comment_block' = st.is_comment_block

SkipLine ==
  /\ tpc = "loop"
  /\ li <= Len(lines)
  /\ Skipped(HeadersStep(is_comment_block, lines[li]))
  /\ li' = li + 1
  /\ UNCHANGED <<md_string, lines, n_seen, toc_list, entries, result, prev_result, calls, tpc>>
  /\ UNCHANGED <<cliVars, seen, funVars>>

\* toc(): the body of the for loop, for the pair headers() yields
Appended(level, e) ==
  /\ n_seen' = e.n_seen
  /\ toc_list' = Append(toc_list, e.line)
  /\ entries' = Append(entries, [at |-> li, level |-> level, base |-> e.base, link |-> e.link])

Yielded(st) ==
  /\ st.yields
  /\ is_comment_block' = st.is_comment_block
  /\ Appended(st.level, TocStep(n_seen, st.level, st.header))

YieldHeader ==
  /\ tpc = "loop"
  /\ li <= Len(lines)
  /\ Yielded(HeadersStep(is_comment_block, lines[li]))
  /\ li' = li + 1
  /\ UNCHANGED <<md_string, lines, result, prev_result, calls, tpc>>
  /\ UNCHANGED <<cliVars, seen, funVars>>

\* return "\n".join(toc)
TocReturn ==
  /\ tpc = "loop"
  /\ li > Len(lines)
  /\ result' = join(toc_list)
  /\ prev_result' = result
  /\ calls' = calls + 1
  /\ tpc' = "idle"
  /\ UNCHANGED <<md_string, lines, li, is_comment_block, n_seen, toc_list, entries>>
  /\ UNCHANGED <<cliVars, seen, funVars>>

(***************************************************************************)
(* A single call of HEADER_PAT.match(line) and of as_link(x).              *)
(***************************************************************************)
HeaderPatMatch ==
  /\ fpc = "call"
  /\ ret' = HEADER_PAT(arg)
  /\ fpc' = "HEADER_PAT"
  /\ UNCHANGED <<arg, cliVars, seen, tocVars>>

AsLink ==
  /\ fpc = "call"
  /\ ret' = as_link(arg)
  /\ fpc' = "as_link"
  /\ UNCHANGED <<arg, cliVars, seen, tocVars>>

(***************************************************************************)
(* Specifications.                                                         *)
(*   Spec          the command line, run up to MaxRuns times on a file     *)
(*   SpecRace      one modify_and_write and a concurrent reader            *)
(*   SpecToc       up to MaxCalls calls of toc() on one text               *)
(*   SpecHeaderPat one call of HEADER_PAT.match                            *)
(*   SpecLink      one call of as_link                                     *)
(***************************************************************************)
Init == InitCli(PatchDocs) /\ InitToc({<<>>}) /\ InitFun({<<>>})

Next ==
  \/ ReadFile
  \/ Substitute
  \/ SubstituteRaises
  \/ RaiseMissing
  \/ RaiseMultiple
  \/ OpenTruncate
  \/ WriteSome
  \/ CloseFile
  \/ CatchMarkdownError
  \/ Uncaught
  \/ CheckLinks
  \/ NoCheckLinks
  \/ RunAgain

Spec == Init /\ [][Next]_vars

InitRace == InitCli(RaceDocs) /\ InitToc({<<>>}) /\ InitFun({<<>>})

NextRace ==
  \/ ReadFile
  \/ Substitute
  \/ SubstituteRaises
  \/ RaiseMissing
  \/ RaiseMultiple
  \/ OpenTruncate
  \/ WriteSome
  \/ CloseFile
  \/ ReaderRead

SpecRace == InitRace /\ [][NextRace]_vars

InitTocCalls == InitCli({<<>>}) /\ InitToc(TocDocs) /\ InitFun({<<>>})

NextToc ==
  \/ TocCall
  \/ SkipLine
  \/ YieldHeader
  \/ TocReturn

SpecToc == InitTocCalls /\ [][NextToc]_vars

InitHeaderPat == InitCli({<<>>}) /\ InitToc({<<>>}) /\ InitFun(HeaderLines)

SpecHeaderPat == InitHeaderPat /\ [][HeaderPatMatch]_vars

InitLink == InitCli({<<>>}) /\ InitToc({<<>>}) /\ InitFun(SlugInputs)

SpecLink == InitLink /\ [][AsLink]_vars

(***************************************************************************)
(* Properties.                                                             *)
(***************************************************************************)
\* the text modify_and_write worked on: the file's content before it wrote
Original == IF pc = "start" THEN file ELSE markdown

\* the number of start/end delimiter pairs of a text: the matches of TOC_PAT
Pairs(text) == SubnFrom(text, <<>>, 1).n

\* the text is the frame around the table of contents of markdown, between
\* what precedes and what follows the span m of markdown
Framed(text, m) ==
  text = SubSeq(markdown, 1, m.start - 1)
         \o TOC_START \o <<"\n", "\n">> \o toc(markdown) \o <<"\n", "\n">> \o TOC_END
         \o SubSeq(markdown, m.stop, Len(markdown))

\* C1: idempotence of the patch.  The command is started again only on a
\* file it patched successfully; that second run raises nothing and, once
\* it has written, the file is the text it read: patch(patch(d)) = patch(d).
C1_PatchIsIdempotent ==
  runs >= 2 =>
    /\ pc \notin {"raised", "exit1", "crashed"}
    /\ pc \in {"written", "exit0"} => file = markdown

\* C1, the failing run: the second run has written a text that differs from
\* the one the first run wrote.
C1_SecondRunChangesFile == runs = 2 /\ pc = "written" /\ file # markdown

\* C2: a document with zero delimiter pairs or with two or more never gets
\* to the write step, the exception that ends the run is MarkdownError, and
\* the file is the text that was read.
C2_MalformedRaisesMarkdownError ==
  (pc # "start" /\ Pairs(markdown) # 1) =>
    /\ pc \notin {"opened", "written", "exit0"}
    /\ pc \in {"raised", "exit1", "crashed"} => error = "MarkdownError"
    /\ file = markdown

\* C2, the failing run: a document without delimiters ends the command with
\* a re.error nothing catches.
C2_NoPairEndsInReError ==
  pc = "crashed" /\ error = "re.error" /\ Pairs(markdown) = 0 /\ file = markdown

\* C3: after a successful patch the file is prefix + start delimiter +
\* blank line + toc(document) + blank line + end delimiter + suffix, prefix
\* and suffix being the text read before and after the matched span.
C3_WrittenTextIsFramedToc ==
  pc = "written" => Framed(file, SearchToc(markdown, 1))

\* C3, the failing run: a header holding backslash-n is written back as a
\* line break inside the region.
C3_EscapeInHeaderIsExpanded ==
  /\ pc = "written"
  /\ runs = 1
  /\ markdown = H_newline \o TOC_START \o TOC_END
  /\ ~Framed(file, SearchToc(markdown, 1))

\* the anchor b of the first occurrence (N = 0), b-N of the N-th repeat
Suffixed(b, N) == IF N = 0 THEN b ELSE b \o <<"-">> \o str(N)

\* how many entries before the k-th have its base anchor
Repeats(k) == Cardinality({j \in 1..k - 1 : entries[j].base = entries[k].base})

\* C4: within one toc() call the header whose base anchor is b gets b when
\* it is the first with that base and b-N when N >= 1 headers with base b
\* precede it, whatever the levels; the bullet line carries that anchor; and
\* a second call on the same text returns what the first returned.
C4_RepeatsGetCountedSuffix ==
  /\ \A k \in 1..Len(entries) :
       /\ entries[k].base = as_link(HEADER_PAT(lines[entries[k].at]).header)
       /\ entries[k].link = Suffixed(entries[k].base, Repeats(k))
       /\ endswith(toc_list[k], <<"(", "#">> \o entries[k].link \o <<")">>)
  /\ (tpc = "idle" /\ calls >= 2) => result = prev_result

\* C4, its case: the second call has returned, and a header of another
\* level than the first is the second repeat of its base anchor.
C4_SecondRepeatSeen ==
  /\ tpc = "idle"
  /\ calls = 2
  /\ result # <<>>
  /\ \E k \in 1..Len(entries) :
       /\ Repeats(k) = 2
       /\ entries[k].link = entries[k].base \o <<"-", "2">>
       /\ \E j \in 1..k - 1 :
            entries[j].base = entries[k].base /\ entries[j].level # entries[k].level

\* C5: no two entries of one toc() call carry the same resolved anchor.
C5_AnchorsAreDistinct ==
  \A j, k \in 1..Len(entries) : j # k => entries[j].link # entries[k].link

\* C5, the failing run: the headers a, a, a-1 give the anchors a, a-1, a-1.
C5_SuffixedAnchorCollides ==
  /\ tpc = "idle"
  /\ calls = 1
  /\ lines = <<<<"#", " ", "a">>, <<"#", " ", "a">>, <<"#", " ", "a", "-", "1">>>>
  /\ entries[2].link = entries[3].link

\* the number of fence lines among the first i lines
FenceLines(i) == Cardinality({j \in 1..i : startswith(lines[j], FENCE)})

OutsideFence(i) == FenceLines(i) % 2 = 0

\* C6: the flag is set exactly after an odd number of fence lines; the lines
\* yielded so far are, in document order, exactly the lines scanned that
\* match the header pattern while the flag is clear (so none after a fence
\* that is never closed); no fence line is one of them.
C6_HeadersOutsideFencesOnly ==
  /\ is_comment_block <=> ~OutsideFence(li - 1)
  /\ {entries[k].at : k \in 1..Len(entries)}
       = {i \in 1..li - 1 : HEADER_PAT(lines[i]).matched /\ OutsideFence(i)}
  /\ \A k \in 1..Len(entries) - 1 : entries[k].at < entries[k + 1].at
  /\ \A k \in 1..Len(entries) : ~startswith(lines[entries[k].at], FENCE)

\* C6, its case: a call has returned; a header line inside a fence was not
\* yielded, and a header line after the closed fence was.
C6_HeaderInsideFenceSkipped ==
  /\ tpc = "idle"
  /\ calls >= 1
  /\ \E i \in 1..Len(lines) :
       /\ HEADER_PAT(lines[i]).matched
       /\ ~OutsideFence(i)
       /\ \A k \in 1..Len(entries) : entries[k].at # i
       /\ \E k \in 1..Len(entries) : entries[k].at > i

\* the line is k spaces, then n "#", then a whitespace character, then text
HeaderShape(line, k, n) ==
  /\ k + n + 1 <= Len(line)
  /\ \A i \in 1..k : line[i] = " "
  /\ \A i \in k + 1..k + n : line[i] = "#"
  /\ IsSpace(line[k + n + 1])

\* C7: a line is recognised as a header if and only if it is zero to three
\* spaces, then one to six "#", then a whitespace character, then the text;
\* the level is the number of "#".
C7_HeaderIffSpacesHashesBlank ==
  fpc = "HEADER_PAT" =>
    /\ ret.matched <=> \E k \in 0..3, n \in 1..6 : HeaderShape(arg, k, n)
    /\ ret.matched => \E k \in 0..3 : HeaderShape(arg, k, ret.level)

\* C7, the failing call: a line that starts with a tab is a header.
C7_TabIndentedLineMatches ==
  /\ fpc = "HEADER_PAT"
  /\ arg = <<"\t", "#", " ", "a">>
  /\ ret.matched
  /\ ret.level = 1

\* C8 as stated: whatever the reader read is the whole original text or the
\* whole patched text.
C8_ReaderSeesOriginalOrPatched ==
  \/ seen = Original
  \/ pc \in {"opened", "written"} /\ seen = new_markdown

\* C8, amended: whatever the reader read is the whole original text or, once
\* the file is open for writing, the first k characters of the patched text
\* for some k from 0 (the empty file) to its length (the whole of it).
C8_ReaderSeesOriginalOrPrefix ==
  \/ seen = Original
  \/ /\ pc \in {"opened", "written"}
     /\ \E k \in 0..Len(new_markdown) : seen = SubSeq(new_markdown, 1, k)

\* C8, its case: the reader read the file while part of the patched text
\* was in it.
C8_ReaderSawPartialWrite ==
  /\ pc = "opened"
  /\ 0 < wpos
  /\ wpos < Len(new_markdown)
  /\ seen = file
  /\ seen # Original
  /\ seen # new_markdown

\* s with a trailing run of two or more hyphens made one hyphen
CollapseTrailing(s) ==
  IF endswith(s, <<"-", "-">>)
  THEN SubSeq(s, 1, TrailStart(s, HYPHEN) - 1) \o <<"-">>
  ELSE s

\* C9: as_link returns s, the text before its last step, with a trailing run
\* of two or more hyphens made one hyphen and every character before that
\* run unchanged, and s itself otherwise; as_link of the empty string is
\* empty.
C9_TrailingHyphensCollapsed ==
  fpc = "as_link" =>
    /\ ret = CollapseTrailing(RawLink(arg))
    /\ arg = <<>> => ret = <<>>

\* C9, the failing call: the hyphen in front is removed as well.
C9_LeadingHyphenIsStripped ==
  /\ fpc = "as_link"
  /\ arg = <<"-", "a", "-", "-">>
  /\ RawLink(arg) = <<"-", "a", "-", "-">>
  /\ ret = <<"a", "-">>

\* the link targets toc() rendered into the document
TocAnchors == {<<"#">> \o e.link : e \in Range(TocEntries(markdown))}

\* C10: after a successful patch, every link of the link check's report
\* whose target is "#" and an anchor toc() rendered is reported VALID.
C10_TocLinksAreValid ==
  pc = "exit0" =>
    \A i \in 1..Len(report) : report[i].link \in TocAnchors => report[i].valid = "VALID"

\* C10, the failing run: the anchor a-1 of a repeated header is INVALID.
C10_RepeatAnchorIsInvalid ==
  /\ pc = "exit0"
  /\ runs = 1
  /\ \E i \in 1..Len(report) :
       /\ report[i].link = <<"#", "a", "-", "1">>
       /\ report[i].link \in TocAnchors
       /\ report[i].valid = "INVALID"

\* toc(), its loop and the operator the command line uses agree
TocLoopIsToc == (tpc = "idle" /\ calls >= 1) => result = toc(md_string)

====
